---- MODULE Spec2Model ----
(***************************************************************************)
(* Model of the OpenAI -> Azure OpenAI translation proxy.                  *)
(*                                                                         *)
(*   route      src/app/api/v1/chat/completions/route.ts (the POST of      *)
(*              lines 204-414, the current handler)                        *)
(*   adapter    src/lib/adapters/azure-adapter.ts                          *)
(*   sanitizer  src/lib/utils/sanitize.ts                                  *)
(*                                                                         *)
(* One inbound request is followed from the parsed body to the response    *)
(* (or to the end of the SSE stream).  An action is the code that runs     *)
(* between two awaits of the handler; the backend is the environment.      *)
(*                                                                         *)
(* Text.  A JavaScript string is a sequence of lexemes (words) that are    *)
(* separated by white space in the real text; ":" and "=" are lexemes of   *)
(* their own.  The regular expressions of the sanitizer and of the route   *)
(* are evaluated on lexemes: a character class such as [^'",}\s]+ is a     *)
(* single lexeme, \s* is the gap between two lexemes.                      *)
(*                                                                         *)
(* Bytes.  The backend's SSE byte stream is a sequence of atoms; a read    *)
(* returns any non-empty run of the atoms that are still to come, so a     *)
(* chunk may end inside the "data: " prefix, inside a payload or between   *)
(* the two newlines of a frame.                                            *)
(***************************************************************************)
EXTENDS Integers, Sequences, FiniteSets, TLC

(***************************************************************************)
(* Bounds of the model.                                                    *)
(***************************************************************************)
MaxBodyLen == 3     \* lexemes in a backend error body
MaxFrames  == 2     \* SSE frames the backend emits on one stream
MaxChunks  == 2     \* reads that return bytes on one stream

(***************************************************************************)
(* Generic helpers.                                                        *)
(***************************************************************************)
SeqsUpTo(S, n) == UNION { [1..k -> S] : k \in 0..n }

RECURSIVE Flatten(_)
Flatten(ss) == IF ss = <<>> THEN <<>> ELSE Head(ss) \o Flatten(Tail(ss))

\* sub occurs in s as a contiguous run starting at position i
OccursAt(sub, s, i) ==
    /\ i + Len(sub) - 1 <= Len(s)
    /\ \A k \in 1..Len(sub) : s[i + k - 1] = sub[k]

Occurrences(sub, s) == { i \in 1..Len(s) : OccursAt(sub, s, i) }

\* String.prototype.includes on lexeme text
Includes(s, sub) == Occurrences(sub, s) # {}

(***************************************************************************)
(* sanitize.ts                                                             *)
(***************************************************************************)
REDACTED_MARKER == "[REDACTED]"

\* lexemes that /api[-_]?key/i matches
ApiKeyWords == {"api-key", "api_key", "apikey", "apiKey"}
\* lexemes that /authorization/i matches
AuthWords == {"authorization", "Authorization"}
\* lexemes that /token/i matches
TokenWords == {"token"}
\* [:=]
Separators == {":", "="}

\* The two credentials of the model: the first has the shape
\* \b[a-z]{2}-[a-zA-Z0-9]{20,}\b of the last pattern, the second (32 hex
\* digits, the form of an Azure OpenAI key) has not.
ShapedKey == "sk-abcdefghijklmnopqrstuvwx"
PlainKey  == "0123456789abcdef0123456789abcdef"
KeyShapedLexemes == {ShapedKey}

hideSensitiveValue(value) == REDACTED_MARKER

\* str.replace(/(<kw>\s*[:=]\s*)([^'",}\s]+)/gi, ...): a keyword, a
\* separator and the one lexeme after it; matches do not overlap.  With
\* keepPrefix the match becomes prefix + marker (patterns 1 and 3),
\* without it `${header}: ${marker}` (pattern 2).
RECURSIVE ReplaceKeyed(_, _, _)
ReplaceKeyed(t, kws, keepPrefix) ==
    IF t = <<>> THEN <<>>
    ELSE IF Len(t) >= 3 /\ t[1] \in kws /\ t[2] \in Separators
         THEN <<t[1], IF keepPrefix THEN t[2] ELSE ":", hideSensitiveValue(t[3])>>
                  \o ReplaceKeyed(SubSeq(t, 4, Len(t)), kws, keepPrefix)
         ELSE <<t[1]>> \o ReplaceKeyed(Tail(t), kws, keepPrefix)

\* str.replace(/\b([a-z]{2}-[a-zA-Z0-9]{20,})\b/gi, ...)
ReplaceKeyShaped(t) ==
    [i \in 1..Len(t) |->
        IF t[i] \in KeyShapedLexemes THEN hideSensitiveValue(t[i]) ELSE t[i]]

\* sanitizeString(str) with the default mask = false; the empty string is
\* returned as it is by the guard `!str`
sanitizeString(str) ==
    IF str = <<>> THEN str
    ELSE ReplaceKeyShaped(
           ReplaceKeyed(
             ReplaceKeyed(
               ReplaceKeyed(str, ApiKeyWords, TRUE),
               AuthWords \cup ApiKeyWords, FALSE),
             TokenWords, TRUE))

\* sanitizeError(error) for an Error instance: its message, sanitized
sanitizeError(message) == sanitizeString(message)

(***************************************************************************)
(* JSON values.  Every value is a record with the tag t first, so that     *)
(* values of different types compare unequal.  An object carries the       *)
(* fields the code reads; an absent field is Undef.                        *)
(***************************************************************************)
Undef == [t |-> "undefined"]
Null == [t |-> "null"]
Str(s) == [t |-> "string", s |-> s]
Arr(a) == [t |-> "array", a |-> a]
Bool(b) == [t |-> "boolean", b |-> b]
Obj(role, content, text) ==
    [t |-> "object", role |-> role, content |-> content, text |-> text]

IsStr(v) == v.t = "string"
IsArr(v) == v.t = "array"
IsObj(v) == v.t = "object"

\* ToBoolean
Truthy(v) ==
    CASE v.t = "undefined" -> FALSE
      [] v.t = "null" -> FALSE
      [] v.t = "string" -> v.s # <<>>
      [] v.t = "boolean" -> v.b
      [] v.t = "number" -> v.n # 0
      [] OTHER -> TRUE

\* v?.name: the value of a property, undefined when v has none
Field(v, name) == IF IsObj(v) /\ name \in DOMAIN v THEN v[name] ELSE Undef
Role(v) == Field(v, "role")
Content(v) == Field(v, "content")
Text(v) == Field(v, "text")

Num(n) == [t |-> "number", n |-> n]
IsNum(v) == v.t = "number"

\* v?.[0]
First(v) == IF IsArr(v) /\ Len(v.a) > 0 THEN v.a[1] ELSE Undef

\* a ?? b and a || b
Nullish(v) == v.t \in {"undefined", "null"}
Coalesce(a, b) == IF Nullish(a) THEN b ELSE a
Or(a, b) == IF Truthy(a) THEN a ELSE b

\* String.prototype.trim() leaves something
Whitespace == {" "}
TrimNonEmpty(s) == \E i \in 1..Len(s) : s[i] \notin Whitespace

\* Array.prototype.join('\n') of strings
RECURSIVE JoinNL(_)
JoinNL(ss) ==
    IF ss = <<>> THEN <<>>
    ELSE IF Len(ss) = 1 THEN ss[1]
    ELSE ss[1] \o <<"\n">> \o JoinNL(Tail(ss))

\* the string a JSON string value stands for ('' for anything else the
\* model's bodies can hold in a text position)
StrOf(v) == IF IsStr(v) THEN v.s ELSE <<>>

(***************************************************************************)
(* route.ts, the Request Normalizer                                        *)
(***************************************************************************)
\* the callback of content.map(...) in extractText
extractItemText(item) ==
    IF IsStr(item) THEN item.s
    ELSE IF Truthy(Text(item)) THEN StrOf(Text(item))
    ELSE IF Truthy(Content(item)) THEN StrOf(Content(item))
    ELSE <<>>

extractText(content) ==
    IF IsStr(content) THEN content.s
    ELSE IF IsArr(content)
         THEN JoinNL(SelectSeq([i \in 1..Len(content.a) |-> extractItemText(content.a[i])],
                               LAMBDA s : s # <<>>))
    ELSE IF Truthy(Text(content)) THEN StrOf(Text(content))
    ELSE IF Truthy(Content(content)) THEN StrOf(Content(content))
    ELSE <<>>

\* item?.role && (typeof item.content === 'string' || item.content)
IsValidMessage(item) ==
    Truthy(Role(item)) /\ (IsStr(Content(item)) \/ Truthy(Content(item)))

\* one normalized turn { role, content: extractText(content) }
NormTurn(item) == Obj(Role(item), Str(extractText(Content(item))), Undef)

\* buildMessages without the trim() of line 262: a string of white space
\* becomes a user turn
buildMessages_NoTrim(candidate) ==
    IF ~Truthy(candidate) THEN Undef
    ELSE IF IsArr(candidate)
         THEN LET validMessages == SelectSeq(candidate.a, IsValidMessage)
              IN  IF Len(validMessages) > 0
                  THEN Arr([i \in 1..Len(validMessages) |-> NormTurn(validMessages[i])])
                  ELSE IF \A i \in 1..Len(candidate.a) : IsStr(candidate.a[i])
                       THEN Arr(<<Obj(Str(<<"user">>),
                                      Str(JoinNL([i \in 1..Len(candidate.a) |-> candidate.a[i].s])),
                                      Undef)>>)
                       ELSE Undef
    ELSE IF IsObj(candidate) /\ Role(candidate) # Undef
         THEN Arr(<<NormTurn(candidate)>>)
    ELSE IF IsStr(candidate)
         THEN Arr(<<Obj(Str(<<"user">>), candidate, Undef)>>)
    ELSE Undef

\* an empty array gives no Conversation (`if (candidate.length === 0)
\* return undefined`), as in the handler's earlier version
buildMessages_EmptyArrayUndefined(candidate) ==
    IF ~Truthy(candidate) THEN Undef
    ELSE IF IsArr(candidate)
         THEN LET validMessages == SelectSeq(candidate.a, IsValidMessage)
              IN  IF Len(candidate.a) = 0 THEN Undef
                  ELSE IF Len(validMessages) > 0
                  THEN Arr([i \in 1..Len(validMessages) |-> NormTurn(validMessages[i])])
                  ELSE IF \A i \in 1..Len(candidate.a) : IsStr(candidate.a[i])
                       THEN Arr(<<Obj(Str(<<"user">>),
                                      Str(JoinNL([i \in 1..Len(candidate.a) |-> candidate.a[i].s])),
                                      Undef)>>)
                       ELSE Undef
    ELSE IF IsObj(candidate) /\ Role(candidate) # Undef
         THEN Arr(<<NormTurn(candidate)>>)
    ELSE IF IsStr(candidate) /\ TrimNonEmpty(candidate.s)
         THEN Arr(<<Obj(Str(<<"user">>), candidate, Undef)>>)
    ELSE Undef

buildMessages(candidate) ==
    IF ~Truthy(candidate) THEN Undef
    ELSE IF IsArr(candidate)
         THEN LET validMessages == SelectSeq(candidate.a, IsValidMessage)
              IN  IF Len(validMessages) > 0
                  THEN Arr([i \in 1..Len(validMessages) |-> NormTurn(validMessages[i])])
                  ELSE IF \A i \in 1..Len(candidate.a) : IsStr(candidate.a[i])
                       THEN Arr(<<Obj(Str(<<"user">>),
                                      Str(JoinNL([i \in 1..Len(candidate.a) |-> candidate.a[i].s])),
                                      Undef)>>)
                       ELSE Undef
    ELSE IF IsObj(candidate) /\ Role(candidate) # Undef
         THEN Arr(<<NormTurn(candidate)>>)
    ELSE IF IsStr(candidate) /\ TrimNonEmpty(candidate.s)
         THEN Arr(<<Obj(Str(<<"user">>), candidate, Undef)>>)
    ELSE Undef

\* rawBody?.data?.messages and the like: a wrapper is Undef or a record
\* with the fields messages and input
WMessages(w) == IF w.t = "wrapper" THEN w.messages ELSE Undef
WInput(w) == IF w.t = "wrapper" THEN w.input ELSE Undef

\* the candidates in the order of the earlier handler (lines 58-82):
\* messages before input
candidates_MessagesFirst(rawBody) ==
    << rawBody.messages,
       rawBody.input,
       rawBody.prompt,
       rawBody.text,
       WMessages(rawBody.data),
       WInput(rawBody.data),
       WMessages(rawBody.payload),
       WInput(rawBody.payload),
       WMessages(rawBody.request),
       WInput(rawBody.request),
       WMessages(rawBody.inputs),
       WInput(rawBody.inputs),
       WMessages(rawBody.params) >>

candidates(rawBody) ==
    << rawBody.input,
       rawBody.messages,
       rawBody.prompt,
       rawBody.text,
       WMessages(rawBody.data),
       WInput(rawBody.data),
       WMessages(rawBody.payload),
       WInput(rawBody.payload),
       WMessages(rawBody.request),
       WInput(rawBody.request),
       WMessages(rawBody.inputs),
       WInput(rawBody.inputs),
       WMessages(rawBody.params) >>

\* the loop over the candidates: the first one whose normalized form has
\* at least one turn, Undef when there is none
RECURSIVE FirstNormalized(_)
FirstNormalized(cs) ==
    IF cs = <<>> THEN Undef
    ELSE LET normalized == buildMessages(Head(cs))
         IN  IF normalized # Undef /\ Len(normalized.a) > 0
             THEN normalized
             ELSE FirstNormalized(Tail(cs))

\* the candidate scan without the guard of line 269: an alternate field
\* replaces a messages array that was already there
NormalizedMessages_AlwaysScan(rawBody) ==
    LET found == FirstNormalized(candidates(rawBody))
    IN  IF found # Undef THEN found ELSE rawBody.messages

\* body.messages after lines 268-311
NormalizedMessages(rawBody) ==
    IF ~Truthy(rawBody.messages) \/ ~IsArr(rawBody.messages)
         \/ Len(rawBody.messages.a) = 0
    THEN LET found == FirstNormalized(candidates(rawBody))
         IN  IF found # Undef THEN found ELSE rawBody.messages
    ELSE rawBody.messages

(***************************************************************************)
(* The inputs of the model: request bodies, descriptors, backend errors.   *)
(***************************************************************************)
ModelName == Str(<<"gpt-4">>)
DeploymentName == Str(<<"dep-1">>)
BackendModel == Str(<<"gpt-4o-2024-08-06">>)

UserHi == Obj(Str(<<"user">>), Str(<<"Hi">>), Undef)
SystemBrief == Obj(Str(<<"system">>), Str(<<"Be", "brief">>), Undef)

Models == {Undef, Str(<<>>), ModelName}
MessagesShapes ==
    {Undef, Arr(<<>>), Arr(<<UserHi>>), Arr(<<SystemBrief, UserHi>>), Arr(<<Null>>)}
InputShapes == {Undef, Str(<<"Say", "hi">>)}
StreamShapes == {Undef, Bool(TRUE)}

RawBodies ==
    [ t : {"body"}, model : Models, messages : MessagesShapes,
      input : InputShapes, prompt : {Undef}, text : {Undef},
      data : {Undef}, payload : {Undef}, request : {Undef},
      inputs : {Undef}, params : {Undef}, stream : StreamShapes,
      stream_options : {Undef}, include : {Undef}, reasoning : {Undef},
      tools : {Undef}, temperature : {Undef}, max_tokens : {Undef},
      max_output_tokens : {Undef} ]

NoRequest == [t |-> "none"]

\* The resolved BackendDescriptor.  found = FALSE is getAzureConfig
\* throwing, an empty apiKey makes validateConfig throw.
Configs ==
    [ found : {TRUE}, apiKey : {ShapedKey, PlainKey, ""},
      deploymentName : {DeploymentName}, modelType : {"chat", "codex"} ]
    \cup
    { [found |-> FALSE, apiKey |-> "", deploymentName |-> DeploymentName,
       modelType |-> "chat"] }

\* the backend's non-2xx answers: response.status, response.statusText
ErrorStatuses == {401, 429}
StatusLexeme(s) == IF s = 401 THEN "401" ELSE "429"
StatusText(s) == IF s = 401 THEN <<"Unauthorized">> ELSE <<"Too", "Many", "Requests">>

\* the words of a backend error body: it may echo the credential it was
\* sent, name a header, or say that something is required
ErrorLexemes(apiKey) == {apiKey, "Authorization", ":", "Bearer", "required"}
ErrorBodies(apiKey) == SeqsUpTo(ErrorLexemes(apiKey), MaxBodyLen)

\* the backend's 2xx JSON bodies on the blocking path
MessageItem ==
    [t |-> "object", type |-> Str(<<"message">>),
     content |-> Arr(<<[t |-> "object", type |-> Str(<<"output_text">>),
                        text |-> Str(<<"hi">>)]>>)]
BackendChoice ==
    [t |-> "object",
     message |-> [t |-> "object", role |-> Str(<<"assistant">>),
                  content |-> Str(<<"Hello">>)]]

\* an output array with every kind of item extractResponsesOutputText
\* tells apart: a message with blocks of type output_text, text, another
\* type and an empty text, a string, an item with a text, an item with a
\* content, and an item with neither
Block(type, text) == [t |-> "object", type |-> Str(<<type>>), text |-> text]
MixedOutput ==
    Arr(<< [t |-> "object", type |-> Str(<<"message">>),
            content |-> Arr(<< Block("output_text", Str(<<"a">>)),
                               Block("refusal", Str(<<"r">>)),
                               Block("text", Str(<<"b">>)),
                               Block("output_text", Str(<<>>)) >>)],
           Str(<<"s">>),
           Block("function_call", Str(<<"lt">>)),
           [t |-> "object", type |-> Str(<<"reasoning">>), content |-> Str(<<"lc">>)],
           [t |-> "object", type |-> Str(<<"reasoning">>)] >>)
SilentOutput == Arr(<<[t |-> "object", type |-> Str(<<"reasoning">>)]>>)

OutputShapes ==
    {Undef, Null, Arr(<<>>), Arr(<<MessageItem>>), MixedOutput, SilentOutput,
     Str(<<"out">>), [t |-> "object", text |-> Str(<<"o">>)]}
OutputTextShapes == {Undef, Str(<<"hello">>)}
\* choices that carry text in several places, in a string message, and
\* in `text` behind an empty `output`
RichChoice ==
    [t |-> "object",
     message |-> [t |-> "object", role |-> Str(<<"assistant">>), content |-> Str(<<"m">>)],
     output |-> Str(<<"o">>), content |-> Str(<<"c">>), text |-> Str(<<"t">>),
     delta |-> [t |-> "object", content |-> Str(<<"d">>)]]
StringMessageChoice == [t |-> "object", message |-> Str(<<"msg">>)]
ShadowedChoice == [t |-> "object", output |-> Str(<<>>), text |-> Str(<<"hello">>)]
ChoicesShapes ==
    {Undef, Arr(<<BackendChoice>>), Arr(<<RichChoice, StringMessageChoice>>),
     Arr(<<ShadowedChoice>>)}
Usage(input, output) ==
    [t |-> "object", input_tokens |-> Num(input), output_tokens |-> Num(output)]
UsageWithTotal(input, output, total) ==
    [t |-> "object", input_tokens |-> Num(input), output_tokens |-> Num(output),
     total_tokens |-> Num(total)]
UsageShapes ==
    {Undef, Usage(3, 2), UsageWithTotal(3, 2, 0), UsageWithTotal(3, 2, 9),
     [t |-> "object", prompt_tokens |-> Num(4), completion_tokens |-> Num(1)]}

AzureResponses ==
    [ t : {"object"}, model : {Undef, BackendModel}, object : {Undef},
      output : OutputShapes, output_text : OutputTextShapes,
      choices : ChoicesShapes, usage : UsageShapes, finish_reason : {Undef} ]
    \cup {Null}

\* /(\d{3})/ then parseInt: the lexemes of the model that hold three
\* consecutive digits, with the number the first three stand for
ThreeDigits == ("401" :> 401) @@ ("429" :> 429) @@ (PlainKey :> 12)

ExtractStatus(message) ==
    LET hits == { i \in 1..Len(message) : message[i] \in DOMAIN ThreeDigits }
    IN  IF hits = {} THEN 500
        ELSE ThreeDigits[message[CHOOSE i \in hits : \A k \in hits : i <= k]]

(***************************************************************************)
(* azure-adapter.ts: the backend request                                   *)
(***************************************************************************)
\* messages.map(message => ({ role: message.role, content: [...] })) reads
\* a property of every element: it throws a TypeError on null
InputItem(message) ==
    [t |-> "input_item", role |-> Role(message),
     content |-> <<[type |-> "input_text", text |-> Content(message)]>>]

messagesToResponsesInputThrows(messages) ==
    \E i \in 1..Len(messages.a) : messages.a[i] \in {Null, Undef}

messagesToResponsesInput(messages) ==
    [i \in 1..Len(messages.a) |-> InputItem(messages.a[i])]

\* typeof v === 'object' for a truthy v
TypeofObject(v) == IsObj(v) \/ IsArr(v)

\* the filter of payload.tools (lines 333-337)
IsFunctionTool(tool) ==
    /\ Truthy(tool) /\ TypeofObject(tool)
    /\ Field(tool, "type") = Str(<<"function">>)
    /\ Truthy(Field(tool, "function")) /\ TypeofObject(Field(tool, "function"))
    /\ Truthy(Field(Field(tool, "function"), "name"))

\* stripUnsupportedParams(payload); a deleted property is Undef.  The
\* second test on stream_options (line 321) finds include_usage only on
\* an object, which the first test has deleted already.
stripUnsupportedParams(payload) ==
    [payload EXCEPT
        !.stream_options = IF Truthy(@) /\ TypeofObject(@) THEN Undef
                           ELSE IF Field(@, "include_usage") # Undef THEN Undef
                           ELSE @,
        !.include = Undef,
        !.reasoning = Undef,
        !.text = Undef,
        !.tools = IF IsArr(@)
                  THEN IF Len(SelectSeq(@.a, IsFunctionTool)) > 0
                       THEN Arr(SelectSeq(@.a, IsFunctionTool))
                       ELSE Undef
                  ELSE @]

DefaultMaxOutputTokens == 16384

\* requestBody of the chat branch (lines 384-386 and 542-547)
ChatRequestBody(request, streaming) ==
    LET rest == [request EXCEPT !.model = Undef, !.input = Undef]
    IN  stripUnsupportedParams(
            IF streaming THEN [rest EXCEPT !.stream = Bool(TRUE)] ELSE rest)

\* the alternate branch without the renaming of lines 364-368: max_tokens
\* stays in the body under its own name
CodexRequestBody_KeepsMaxTokens(request, config, streaming) ==
    LET otherParams == [request EXCEPT !.model = Undef, !.messages = Undef,
                                       !.stream = Undef, !.input = Undef]
        stripped == stripUnsupportedParams(
                        [otherParams EXCEPT
                            !.input = Arr(messagesToResponsesInput(request.messages)),
                            !.model = config.deploymentName])
    IN  [stripped EXCEPT !.stream = IF streaming THEN Bool(TRUE) ELSE request.stream]

\* requestBody of the alternate branch (lines 353-373 and 517-531)
CodexRequestBody(request, config, streaming) ==
    LET otherParams == [request EXCEPT !.model = Undef, !.messages = Undef,
                                       !.max_tokens = Undef, !.stream = Undef,
                                       !.input = Undef]
        stripped == stripUnsupportedParams(
                        [otherParams EXCEPT
                            !.input = Arr(messagesToResponsesInput(request.messages)),
                            !.model = config.deploymentName])
    IN  [stripped EXCEPT
            !.max_output_tokens =
                IF request.max_tokens # Undef THEN request.max_tokens
                ELSE IF ~Truthy(@) THEN Num(DefaultMaxOutputTokens)
                ELSE @,
            !.stream = IF streaming THEN Bool(TRUE) ELSE request.stream]

RequestBody(request, config, streaming) ==
    IF config.modelType = "codex"
    THEN CodexRequestBody(request, config, streaming)
    ELSE ChatRequestBody(request, streaming)

\* the mode inferred per request: a body that brings an `input` field goes
\* to the responses endpoint whatever the descriptor says
AzureRequest_ModeFromBody(request, config, streaming) ==
    IF config.modelType = "codex" \/ request.input # Undef
    THEN [ url |-> "/openai/responses",
           header |-> "Authorization",
           credential |-> <<"Bearer", config.apiKey>>,
           input |-> messagesToResponsesInput(request.messages),
           messages |-> Undef,
           stream |-> IF streaming THEN Bool(TRUE) ELSE request.stream,
           body |-> RequestBody(request, config, streaming) ]
    ELSE [ url |-> "/openai/deployments/{deployment}/chat/completions",
           header |-> "api-key",
           credential |-> <<config.apiKey>>,
           input |-> <<>>,
           messages |-> request.messages,
           stream |-> IF streaming THEN Bool(TRUE) ELSE request.stream,
           body |-> RequestBody(request, config, streaming) ]

\* url, credential header and body of the fetch call (lines 348-400 and
\* 512-560); alternate mode sends input, chat mode sends messages
AzureRequest(request, config, streaming) ==
    IF config.modelType = "codex"
    THEN [ url |-> "/openai/responses",
           header |-> "Authorization",
           credential |-> <<"Bearer", config.apiKey>>,
           input |-> messagesToResponsesInput(request.messages),
           messages |-> Undef,
           stream |-> IF streaming THEN Bool(TRUE) ELSE request.stream,
           body |-> RequestBody(request, config, streaming) ]
    ELSE [ url |-> "/openai/deployments/{deployment}/chat/completions",
           header |-> "api-key",
           credential |-> <<config.apiKey>>,
           input |-> <<>>,
           messages |-> request.messages,
           stream |-> IF streaming THEN Bool(TRUE) ELSE request.stream,
           body |-> RequestBody(request, config, streaming) ]

NoCall == [url |-> "none"]

(***************************************************************************)
(* azure-adapter.ts: the blocking response                                 *)
(***************************************************************************)
\* the loop over item.content without its branch for blocks of type text
BlockTexts_OutputTextOnly(contentItem) ==
    IF Field(contentItem, "type") = Str(<<"output_text">>) /\ IsStr(Text(contentItem))
    THEN <<Text(contentItem).s>>
    ELSE <<>>

\* the body of the loop over item.content (lines 50-56)
BlockTexts(contentItem) ==
    IF Field(contentItem, "type") \in {Str(<<"output_text">>), Str(<<"text">>)}
         /\ IsStr(Text(contentItem))
    THEN <<Text(contentItem).s>>
    ELSE <<>>

ItemTexts(item) ==
    IF IsStr(item) THEN <<item.s>>
    ELSE IF Field(item, "type") = Str(<<"message">>) /\ IsArr(Content(item))
    THEN Flatten([i \in 1..Len(Content(item).a) |-> BlockTexts(Content(item).a[i])])
    ELSE IF Field(item, "type") = Str(<<"output_text">>) /\ IsStr(Text(item))
    THEN <<Text(item).s>>
    ELSE IF IsStr(Text(item)) THEN <<Text(item).s>>
    ELSE IF IsStr(Content(item)) THEN <<Content(item).s>>
    ELSE <<>>

extractResponsesOutputText(output) ==
    IF ~Truthy(output) THEN <<>>
    ELSE LET outputItems == IF IsArr(output) THEN output.a ELSE <<output>>
             texts == Flatten([i \in 1..Len(outputItems) |-> ItemTexts(outputItems[i])])
         IN  JoinNL(SelectSeq(texts, LAMBDA s : s # <<>>))

\* a + b of two token counts
Plus(a, b) == IF IsNum(a) /\ IsNum(b) THEN Num(a.n + b.n) ELSE Undef

\* the usage block of the output-array, output_text and top-level-output
\* shapes (lines 92-99, 120-127, 248-255)
NullishUsage(usage) ==
    LET prompt == Coalesce(Field(usage, "input_tokens"),
                           Coalesce(Field(usage, "prompt_tokens"), Num(0)))
        completion == Coalesce(Field(usage, "output_tokens"),
                               Coalesce(Field(usage, "completion_tokens"), Num(0)))
        total == Coalesce(Field(usage, "total_tokens"), Num(0))
    IN  [prompt_tokens |-> prompt, completion_tokens |-> completion,
         total_tokens |-> IF ~Truthy(total) THEN Plus(prompt, completion) ELSE total]

\* the usage block of the choices shape (lines 196-221)
ChoicesUsage(usage) ==
    IF ~Truthy(usage)
    THEN [prompt_tokens |-> Num(0), completion_tokens |-> Num(0), total_tokens |-> Num(0)]
    ELSE LET prompt == IF Field(usage, "input_tokens") # Undef THEN Field(usage, "input_tokens")
                       ELSE IF Field(usage, "prompt_tokens") # Undef THEN Field(usage, "prompt_tokens")
                       ELSE Num(0)
             completion == IF Field(usage, "output_tokens") # Undef THEN Field(usage, "output_tokens")
                           ELSE IF Field(usage, "completion_tokens") # Undef
                                THEN Field(usage, "completion_tokens")
                           ELSE Num(0)
         IN  [prompt_tokens |-> prompt, completion_tokens |-> completion,
              total_tokens |-> IF Field(usage, "total_tokens") # Undef
                               THEN Field(usage, "total_tokens")
                               ELSE Plus(prompt, completion)]

\* `choice.output.text` of line 162 reads a property of null
ChoiceContentThrows(choice) ==
    ~Truthy(Content(Field(choice, "message"))) /\ Field(choice, "output") = Null

\* the content of one choice of the choices shape (lines 154-178)
ChoiceContent(choice) ==
    IF Truthy(Content(Field(choice, "message"))) THEN Content(Field(choice, "message"))
    ELSE IF Field(choice, "output") # Undef
    THEN IF IsStr(Field(choice, "output")) THEN Field(choice, "output")
         ELSE IF IsObj(Field(choice, "output"))
         THEN Or(Text(Field(choice, "output")),
                 Or(Content(Field(choice, "output")),
                    Or(Field(Field(choice, "output"), "message"), Str(<<>>))))
         ELSE Str(<<>>)
    ELSE IF Content(choice) # Undef
    THEN IF IsStr(Content(choice)) THEN Content(choice) ELSE Str(<<>>)
    ELSE IF Text(choice) # Undef
    THEN IF IsStr(Text(choice)) THEN Text(choice) ELSE Str(<<>>)
    ELSE IF Truthy(Content(Field(choice, "delta"))) THEN Content(Field(choice, "delta"))
    ELSE IF IsStr(Field(choice, "message")) /\ Truthy(Field(choice, "message"))
    THEN Field(choice, "message")
    ELSE Str(<<>>)

ChatChoice(index, role, content, finish_reason) ==
    [t |-> "object", index |-> index,
     message |-> [t |-> "object", role |-> role, content |-> content],
     finish_reason |-> finish_reason]

\* the ChatResponse the adapter builds (id and created, which come from
\* the clock when the backend gives none, are left out)
ChatResponse(object, model, choices, usage) ==
    [t |-> "object", object |-> object, model |-> model,
     choices |-> Arr(choices), usage |-> usage]

Assistant == Str(<<"assistant">>)
Stop == Str(<<"stop">>)
ChatCompletion == Str(<<"chat.completion">>)

codexToChatResponse(azureResponse, originalRequest) ==
    LET model == Or(originalRequest.model,
                    Or(Field(azureResponse, "model"), Str(<<"unknown">>)))
        output == Field(azureResponse, "output")
        output_text == Field(azureResponse, "output_text")
        choices == Field(azureResponse, "choices")
        usage == Field(azureResponse, "usage")
        finish == Coalesce(Field(azureResponse, "finish_reason"), Stop)
    IN  IF Truthy(output) /\ IsArr(output) /\ Len(output.a) > 0
        THEN ChatResponse(Coalesce(Field(azureResponse, "object"), ChatCompletion), model,
                 <<ChatChoice(Num(0), Assistant, Str(extractResponsesOutputText(output)), finish)>>,
                 NullishUsage(usage))
        ELSE IF Truthy(output_text)
        THEN ChatResponse(ChatCompletion, model,
                 <<ChatChoice(Num(0), Assistant,
                      IF IsStr(output_text) THEN output_text
                      ELSE Or(Text(output_text), Or(Content(output_text), Str(<<>>))),
                      finish)>>,
                 NullishUsage(usage))
        ELSE IF Truthy(choices) /\ IsArr(choices) /\ Len(choices.a) > 0
        THEN ChatResponse(Coalesce(Field(azureResponse, "object"), ChatCompletion), model,
                 [idx \in 1..Len(choices.a) |->
                     ChatChoice(Coalesce(Field(choices.a[idx], "index"), Num(idx - 1)),
                                Or(Role(Field(choices.a[idx], "message")), Assistant),
                                ChoiceContent(choices.a[idx]),
                                Coalesce(Field(choices.a[idx], "finish_reason"), Stop))],
                 ChoicesUsage(usage))
        ELSE IF output # Undef
        THEN ChatResponse(ChatCompletion, model,
                 <<ChatChoice(Num(0), Assistant,
                      IF IsStr(output) THEN output
                      ELSE IF IsObj(output)
                      THEN Or(Text(output), Or(Content(output),
                              Or(Field(output, "message"),
                                 Or(Content(Field(First(Field(output, "choices")), "message")),
                                    Str(<<>>)))))
                      ELSE Str(<<>>),
                      finish)>>,
                 NullishUsage(usage))
        ELSE ChatResponse(ChatCompletion, model,
                 <<ChatChoice(Num(0), Assistant, Str(<<>>), Stop)>>,
                 [prompt_tokens |-> Num(0), completion_tokens |-> Num(0),
                  total_tokens |-> Num(0)])

\* adaptResponseFromAzure throws a TypeError when response.json() is null
\* and the descriptor is alternate mode: azureResponse.usage?.output_tokens
\* reads a property of null
adaptResponseFromAzureThrows(azureResponse, config) ==
    /\ config.modelType = "codex"
    /\ \/ azureResponse = Null
       \/ /\ ~(IsArr(Field(azureResponse, "output"))
                  /\ Len(Field(azureResponse, "output").a) > 0)
          /\ ~Truthy(Field(azureResponse, "output_text"))
          /\ IsArr(Field(azureResponse, "choices"))
          /\ \E i \in 1..Len(Field(azureResponse, "choices").a) :
                 ChoiceContentThrows(Field(azureResponse, "choices").a[i])
       \* a null output reaches `azureResponse.output.text` of line 241
       \/ /\ Field(azureResponse, "output") = Null
          /\ ~Truthy(Field(azureResponse, "output_text"))
          /\ ~(IsArr(Field(azureResponse, "choices"))
                  /\ Len(Field(azureResponse, "choices").a) > 0)

\* the spread written last: { model: ..., ...azureResponse }, so that the
\* backend's own model field wins
ChatPassThrough_KeepsBackendModel(azureResponse, originalRequest) ==
    LET model == Or(originalRequest.model, Str(<<"gpt-4">>))
    IN  IF IsObj(azureResponse)
        THEN [name \in DOMAIN azureResponse \cup {"model"} |->
                 IF name \in DOMAIN azureResponse THEN azureResponse[name] ELSE model]
        ELSE [t |-> "object", model |-> model]

\* { ...azureResponse, model: originalRequest.model || 'gpt-4' }
ChatPassThrough(azureResponse, originalRequest) ==
    LET model == Or(originalRequest.model, Str(<<"gpt-4">>))
    IN  IF IsObj(azureResponse)
        THEN [name \in DOMAIN azureResponse \cup {"model"} |->
                 IF name = "model" THEN model ELSE azureResponse[name]]
        ELSE [t |-> "object", model |-> model]

adaptResponseFromAzure(azureResponse, originalRequest, config) ==
    IF config.modelType = "codex"
    THEN codexToChatResponse(azureResponse, originalRequest)
    ELSE ChatPassThrough(azureResponse, originalRequest)

(***************************************************************************)
(* azure-adapter.ts: the SSE stream                                        *)
(*                                                                         *)
(* An atom is a run of bytes that a read never divides.  JSON.stringify    *)
(* of an object is two atoms, the opening one carrying the object, so      *)
(* that half a payload does not parse.                                     *)
(***************************************************************************)
A(c) == [c |-> c, j |-> Undef]
JsonOpen(value) == [c |-> "{", j |-> value]
NL == A("\n")

DataPrefix == <<A("da"), A("ta: ")>>          \* 'data: '
DoneData == <<A("[DO"), A("NE]")>>            \* '[DONE]'
JunkData == <<A("oo"), A("ps")>>              \* a payload that is not JSON
NumberData == <<A("42")>>                     \* a JSON value that is no object

\* JSON.stringify(value)
Stringify(value) ==
    IF IsObj(value) THEN <<JsonOpen(value), A("}")>> ELSE NumberData

\* JSON.parse(data) returns a value (and does not throw)
ParseOk(data) ==
    \/ data = NumberData
    \/ Len(data) = 2 /\ data[1].c = "{" /\ IsObj(data[1].j) /\ data[2] = A("}")

Parse(data) == IF data = NumberData THEN Num(42) ELSE data[1].j

\* one frame as the backend writes it: 'data: <payload>\n\n'
Frame(data) == DataPrefix \o data \o <<NL, NL>>
DoneFrame == Frame(DoneData)

\* chunk.split('\n')
RECURSIVE SplitLines(_)
SplitLines(chunk) ==
    IF \A i \in 1..Len(chunk) : chunk[i] # NL THEN <<chunk>>
    ELSE LET k == CHOOSE i \in 1..Len(chunk) :
                      chunk[i] = NL /\ \A m \in 1..(i - 1) : chunk[m] # NL
         IN  <<SubSeq(chunk, 1, k - 1)>> \o SplitLines(SubSeq(chunk, k + 1, Len(chunk)))

\* line.startsWith('data: ')
StartsWithData(line) == Len(line) >= 2 /\ SubSeq(line, 1, 2) = DataPrefix

\* the rewrite with a truthiness test on text (choice.text && !choice.delta):
\* an empty text is left where it was
RewriteChoice_TruthyText(choice) ==
    LET moved == IF Truthy(Text(choice)) /\ ~Truthy(Field(choice, "delta"))
                 THEN [choice EXCEPT !.delta = [t |-> "object", content |-> choice.text],
                                     !.text = Undef]
                 ELSE choice
    IN  IF ~Truthy(Field(moved, "message"))
        THEN [moved EXCEPT !.message = [t |-> "object", role |-> Str(<<"assistant">>),
                                        content |-> Str(<<>>)]]
        ELSE moved

\* the rewrite of one choice of an alternate-mode frame (lines 628-639)
RewriteChoice(choice) ==
    LET moved == IF Text(choice) # Undef /\ ~Truthy(Field(choice, "delta"))
                 THEN [choice EXCEPT !.delta = [t |-> "object", content |-> choice.text],
                                     !.text = Undef]
                 ELSE choice
    IN  IF ~Truthy(Field(moved, "message"))
        THEN [moved EXCEPT !.message = [t |-> "object", role |-> Str(<<"assistant">>),
                                        content |-> Str(<<>>)]]
        ELSE moved

\* the rewrite of a parsed payload (lines 620-644)
RewriteFrame(jsonData, request, config) ==
    IF ~(Truthy(jsonData) /\ IsObj(jsonData)) THEN jsonData
    ELSE LET named == [jsonData EXCEPT !.model = Or(request.model, config.deploymentName)]
         IN  IF config.modelType = "codex" /\ Truthy(named.choices) /\ IsArr(named.choices)
             THEN [named EXCEPT
                     !.choices = Arr([i \in 1..Len(named.choices.a) |->
                                        RewriteChoice(named.choices.a[i])]),
                     !.object = Str(<<"chat.completion.chunk">>)]
             ELSE named

\* what the body of `for (const line of lines)` enqueues for one line:
\* a sequence of zero or one byte strings
Enqueued(line, request, config) ==
    IF StartsWithData(line)
    THEN LET data == SubSeq(line, 3, Len(line))
         IN  IF data = DoneData THEN <<DoneFrame>>
             ELSE IF ParseOk(data)
             THEN <<Frame(Stringify(RewriteFrame(Parse(data), request, config)))>>
             ELSE <<line \o <<NL>>>>
    ELSE IF line # <<>> THEN <<line \o <<NL>>>>
    ELSE <<>>

\* the values JSON.parse returns while one chunk is handled, in order
ParsedByLine(line) ==
    IF StartsWithData(line) /\ SubSeq(line, 3, Len(line)) # DoneData
         /\ ParseOk(SubSeq(line, 3, Len(line)))
    THEN <<Parse(SubSeq(line, 3, Len(line)))>>
    ELSE <<>>

ParsedByChunk(chunk) ==
    LET lines == SplitLines(chunk)
    IN  Flatten([i \in 1..Len(lines) |-> ParsedByLine(lines[i])])

\* everything one chunk enqueues, in order
EnqueuedByChunk(chunk, request, config) ==
    LET lines == SplitLines(chunk)
    IN  Flatten([i \in 1..Len(lines) |-> Enqueued(lines[i], request, config)])

\* the frames the backend may emit
TextShapes == {Undef, Str(<<>>), Str(<<"partial">>)}
DeltaShapes == {Undef, [t |-> "object", content |-> Str(<<"d">>)]}
MessageShapes ==
    {Undef, [t |-> "object", role |-> Str(<<"assistant">>), content |-> Str(<<"m">>)]}
StreamChoices ==
    [t : {"object"}, text : TextShapes, delta : DeltaShapes, message : MessageShapes]
TextChoice ==
    [t |-> "object", text |-> Str(<<"partial">>), delta |-> Undef, message |-> Undef]
DeltaChoice ==
    [t |-> "object", text |-> Undef, delta |-> [t |-> "object", content |-> Str(<<"d">>)],
     message |-> Undef]

StreamPayload(choices) ==
    [t |-> "object", model |-> BackendModel, object |-> Str(<<"text_completion">>),
     choices |-> choices]
TextFrame == Frame(Stringify(StreamPayload(Arr(<<TextChoice>>))))

JsonFrames ==
    { Frame(Stringify(StreamPayload(c))) :
        c \in {Undef, Arr(<<TextChoice, DeltaChoice>>)}
               \cup { Arr(<<ch>>) : ch \in StreamChoices } }
AllFrames == JsonFrames \cup {DoneFrame, Frame(JunkData), Frame(NumberData)}
CoreFrames == {TextFrame, DoneFrame, Frame(JunkData)}

\* a stream is one frame of any kind, or up to MaxFrames core frames
Streams == { <<f>> : f \in AllFrames } \cup SeqsUpTo(CoreFrames, MaxFrames)

(***************************************************************************)
(* The responses of the route                                              *)
(***************************************************************************)
NoResponse ==
    [kind |-> "none", status |-> 0, message |-> <<>>, type |-> "",
     code |-> "", body |-> Undef]

\* NextResponse.json({ error: { message, type, code } }, { status })
ErrorResponse(status, message, type, code) ==
    [kind |-> "error", status |-> status, message |-> message, type |-> type,
     code |-> code, body |-> Undef]

\* NextResponse.json(response) of line 355
CompletionResponse(body) ==
    [kind |-> "completion", status |-> 200, message |-> <<>>, type |-> "",
     code |-> "", body |-> body]

\* new Response(stream, { headers: text/event-stream }) of line 665
StreamResponse ==
    [kind |-> "sse", status |-> 200, message |-> <<>>, type |-> "",
     code |-> "", body |-> Undef]

\* the messages of the errors the handler can raise
ConfigNotFoundMessage == <<"Azure", "OpenAI", "configuration", "not", "found">>
KeyRequiredMessage == <<"Azure", "OpenAI", "API", "key", "is", "required">>
TypeErrorMessage == <<"Cannot", "read", "properties", "of", "null">>
SyntaxErrorMessage == <<"Unexpected", "token", "in", "JSON">>
FetchFailedMessage == <<"fetch", "failed">>
ApiErrorPrefix == <<"Azure", "OpenAI", "API", "error">>

\* `Azure OpenAI API error: ${status} ${statusText}. ${safeErrorText}`
ApiErrorMessage(status, safeErrorText) ==
    ApiErrorPrefix \o <<":", StatusLexeme(status)>> \o StatusText(status)
        \o <<".">> \o safeErrorText

\* the response of the catch block of POST (lines 367-412) for an Error
\* with the given message
CatchResponse(message) ==
    LET safeMessage == sanitizeError(message)
    IN  IF Includes(safeMessage, <<"configuration">>)
            \/ Includes(safeMessage, <<"required">>)
        THEN ErrorResponse(500, safeMessage, "server_error", "configuration_error")
        ELSE IF Includes(safeMessage, ApiErrorPrefix)
        THEN ErrorResponse(ExtractStatus(safeMessage), safeMessage,
                           "server_error", "azure_api_error")
        ELSE ErrorResponse(500, <<"Internal", "server", "error">>,
                           "server_error", "internal_error")

\* what console.error receives in the catch block (lines 364-365):
\* sanitizeLogMessage(sanitizeError(error)); src is the text it comes from
CatchLog(message) ==
    [src |-> message, text |-> sanitizeString(sanitizeError(message))]

\* console.error(label, errorText) of lines 404 and 564: the body as read
RawBodyLog(errorText) == [src |-> errorText, text |-> errorText]

(***************************************************************************)
(* State                                                                   *)
(***************************************************************************)
VARIABLES
    pc,         \* where the handler is: received, fetch, streamFetch,
                \* streaming, done
    inbound,    \* the parsed body of the inbound request, until POST runs
    config,     \* the resolved descriptor, as far as the handler still reads it
    req,        \* the fields of the request the handler still reads
    inflight,   \* the backend call that has been issued and not answered
    calls,      \* number of fetch calls issued for this request
    validated,  \* the request passed validation and descriptor resolution
    backend,    \* what the backend answered
    resp,       \* the response returned to the caller
    logs,       \* what console.error has written
    upstream,   \* the frames the backend writes on its stream
    pos,        \* how many atoms of them reader.read() has returned
    chunks,     \* how many reads have returned bytes
    out,        \* the byte strings enqueued on the caller's stream
    parsed,     \* the values JSON.parse returned for the stream, in order
    sstate      \* the caller's stream: none, open, closed, errored

vars == <<pc, inbound, config, req, inflight, calls, validated, backend, resp,
          logs, upstream, pos, chunks, out, parsed, sstate>>

streamVars == <<upstream, pos, chunks, out, parsed, sstate>>

\* what the backend answered: kind, HTTP status, the lexemes of an error
\* body, the model a JSON body echoes
Answer(kind, status, body, model) ==
    [kind |-> kind, status |-> status, body |-> body, model |-> model]
NoAnswer == Answer("none", 0, <<>>, Undef)
\* a 2xx answer whose body is the JSON value azureResponse
JsonAnswer(azureResponse) ==
    [kind |-> "json", status |-> 200, body |-> <<>>,
     model |-> Field(azureResponse, "model"), json |-> azureResponse]

Init ==
    /\ pc = "received"
    /\ inbound \in RawBodies
    /\ config \in Configs
    /\ req = NoRequest
    /\ inflight = NoCall
    /\ calls = 0
    /\ validated = FALSE
    /\ backend = NoAnswer
    /\ resp = NoResponse
    /\ logs = <<>>
    /\ upstream = <<>>
    /\ pos = 0
    /\ chunks = 0
    /\ out = <<>>
    /\ parsed = <<>>
    /\ sstate = "none"

\* return a response without having called the backend
Return(response) ==
    /\ pc' = "done"
    /\ resp' = response
    /\ UNCHANGED <<inflight, calls, backend>>

\* an Error thrown inside the try block of POST reaches its catch block
Caught(message) ==
    /\ pc' = "done"
    /\ resp' = CatchResponse(message)
    /\ logs' = Append(logs, CatchLog(message))

\* POST with the descriptor resolved before the request is validated
POST_ResolvesFirst ==
    /\ pc = "received"
    /\ LET rawBody == inbound
           messages == NormalizedMessages(rawBody)
           body == [rawBody EXCEPT !.messages = messages]
       IN  /\ inbound' = NoRequest
           /\ req' = [model |-> body.model, stream |-> Truthy(body.stream)]
           /\ UNCHANGED <<config, streamVars>>
           /\ IF ~config.found
              THEN /\ Caught(ConfigNotFoundMessage)
                   /\ UNCHANGED <<inflight, calls, backend, validated>>
              ELSE IF config.apiKey = ""
              THEN /\ Caught(KeyRequiredMessage)
                   /\ UNCHANGED <<inflight, calls, backend, validated>>
              ELSE IF ~Truthy(messages) \/ ~IsArr(messages)
              THEN /\ Return(ErrorResponse(400,
                          <<"Invalid", "request", ":", "messages", "array", "is", "required">>,
                          "invalid_request_error", "missing_messages"))
                   /\ UNCHANGED <<validated, logs>>
              ELSE IF ~Truthy(body.model)
              THEN /\ Return(ErrorResponse(400,
                          <<"Invalid", "request", ":", "model", "is", "required">>,
                          "invalid_request_error", "missing_model"))
                   /\ UNCHANGED <<validated, logs>>
              ELSE IF config.modelType = "codex" /\ messagesToResponsesInputThrows(messages)
              THEN /\ Caught(TypeErrorMessage)
                   /\ validated' = TRUE
                   /\ UNCHANGED <<inflight, calls, backend>>
              ELSE /\ inflight' = AzureRequest(body, config, Truthy(body.stream))
                   /\ calls' = calls + 1
                   /\ validated' = TRUE
                   /\ pc' = IF Truthy(body.stream) THEN "streamFetch" ELSE "fetch"
                   /\ UNCHANGED <<backend, resp, logs>>

(***************************************************************************)
(* POST of route.ts, from the parsed body to the first await on the        *)
(* backend: normalization, validation, descriptor resolution, and the      *)
(* part of proxyToAzure / proxyToAzureStream that builds and issues the    *)
(* call.                                                                   *)
(***************************************************************************)
POST ==
    /\ pc = "received"
    /\ LET rawBody == inbound
           messages == NormalizedMessages(rawBody)
           body == [rawBody EXCEPT !.messages = messages]
           resolved == config.found /\ config.apiKey # ""
       IN  /\ inbound' = NoRequest
           /\ req' = [model |-> body.model, stream |-> Truthy(body.stream)]
           /\ UNCHANGED <<config, streamVars>>
           /\ IF ~Truthy(messages) \/ ~IsArr(messages)
              THEN /\ Return(ErrorResponse(400,
                          <<"Invalid", "request", ":", "messages", "array", "is", "required">>,
                          "invalid_request_error", "missing_messages"))
                   /\ UNCHANGED <<validated, logs>>
              ELSE IF ~Truthy(body.model)
              THEN /\ Return(ErrorResponse(400,
                          <<"Invalid", "request", ":", "model", "is", "required">>,
                          "invalid_request_error", "missing_model"))
                   /\ UNCHANGED <<validated, logs>>
              ELSE IF ~config.found
              THEN /\ Caught(ConfigNotFoundMessage)
                   /\ UNCHANGED <<inflight, calls, backend, validated>>
              ELSE IF config.apiKey = ""
              THEN /\ Caught(KeyRequiredMessage)
                   /\ UNCHANGED <<inflight, calls, backend, validated>>
              ELSE IF config.modelType = "codex" /\ messagesToResponsesInputThrows(messages)
              THEN /\ Caught(TypeErrorMessage)
                   /\ validated' = TRUE
                   /\ UNCHANGED <<inflight, calls, backend>>
              ELSE /\ inflight' = AzureRequest(body, config, Truthy(body.stream))
                   /\ calls' = calls + 1
                   /\ validated' = TRUE
                   /\ pc' = IF Truthy(body.stream) THEN "streamFetch" ELSE "fetch"
                   /\ UNCHANGED <<backend, resp, logs>>

(***************************************************************************)
(* adaptRequestToAzure after the fetch, for an answer that is not ok       *)
(* (lines 402-410), and the catch block of POST that receives the Error.   *)
(***************************************************************************)
AdaptErrorResponse(status, errorText) ==
    /\ pc = "fetch"
    /\ LET safeErrorText == sanitizeString(errorText)
           message == ApiErrorMessage(status, safeErrorText)
       IN  /\ backend' = Answer("error", status, errorText, Undef)
           /\ inflight' = NoCall
           /\ pc' = "done"
           /\ resp' = CatchResponse(message)
           /\ logs' = logs \o <<RawBodyLog(errorText), CatchLog(message)>>
           /\ UNCHANGED <<inbound, config, req, calls, validated, streamVars>>

(***************************************************************************)
(* proxyToAzure after the fetch, for an ok answer: response.json(),        *)
(* adaptResponseFromAzure (lines 419-452) and the return of line 355.      *)
(***************************************************************************)
AdaptOkResponse(azureResponse) ==
    /\ pc = "fetch"
    /\ backend' = JsonAnswer(azureResponse)
    /\ inflight' = NoCall
    /\ IF adaptResponseFromAzureThrows(azureResponse, config)
       THEN Caught(TypeErrorMessage)
       ELSE /\ pc' = "done"
            /\ resp' = CompletionResponse(adaptResponseFromAzure(azureResponse, req, config))
            /\ UNCHANGED logs
    /\ UNCHANGED <<inbound, config, req, calls, validated, streamVars>>

\* response.json() rejects: the 2xx body is not JSON
AdaptBadJson ==
    /\ pc = "fetch"
    /\ backend' = Answer("notjson", 200, <<>>, Undef)
    /\ inflight' = NoCall
    /\ Caught(SyntaxErrorMessage)
    /\ UNCHANGED <<inbound, config, req, calls, validated, streamVars>>

\* the fetch itself rejects (no answer from the backend)
FetchRejects ==
    /\ pc \in {"fetch", "streamFetch"}
    /\ backend' = Answer("unreachable", 0, <<>>, Undef)
    /\ inflight' = NoCall
    /\ Caught(FetchFailedMessage)
    /\ UNCHANGED <<inbound, config, req, calls, validated, streamVars>>

\* the streaming error raised as an Error and answered by the catch block
\* of POST, as the blocking path does
StreamErrorResponse_Thrown(status, errorText) ==
    /\ pc = "streamFetch"
    /\ LET safeErrorText == sanitizeString(errorText)
       IN  /\ backend' = Answer("error", status, errorText, Undef)
           /\ inflight' = NoCall
           /\ pc' = "done"
           /\ resp' = CatchResponse(ApiErrorMessage(status, safeErrorText))
           /\ logs' = Append(logs, RawBodyLog(errorText))
           /\ UNCHANGED <<inbound, config, req, calls, validated, streamVars>>

(***************************************************************************)
(* proxyToAzureStream after the fetch, for an answer that is not ok        *)
(* (lines 562-582).                                                        *)
(***************************************************************************)
StreamErrorResponse(status, errorText) ==
    /\ pc = "streamFetch"
    /\ LET safeErrorText == sanitizeString(errorText)
       IN  /\ backend' = Answer("error", status, errorText, Undef)
           /\ inflight' = NoCall
           /\ pc' = "done"
           /\ resp' = ErrorResponse(status, ApiErrorMessage(status, safeErrorText),
                                    "server_error", "azure_api_error")
           /\ logs' = Append(logs, RawBodyLog(errorText))
           /\ UNCHANGED <<inbound, config, req, calls, validated, streamVars>>

(***************************************************************************)
(* proxyToAzureStream after the fetch, for an ok answer: the stream is     *)
(* created and returned (lines 584-675); without a body the answer is      *)
(* the error of lines 677-692.                                             *)
(***************************************************************************)
\* what the start callback of the stream still reads of the descriptor:
\* isCodex and deploymentName, not the credential
StreamScope(cfg) == [cfg EXCEPT !.apiKey = ""]

StreamOpen(frames) ==
    /\ pc = "streamFetch"
    /\ backend' = Answer("stream", 200, <<>>, Undef)
    /\ inflight' = NoCall
    /\ pc' = "streaming"
    /\ resp' = StreamResponse
    /\ config' = StreamScope(config)
    /\ upstream' = frames
    /\ sstate' = "open"
    /\ UNCHANGED <<inbound, req, calls, validated, logs, pos, chunks, out, parsed>>

StreamNoBody ==
    /\ pc = "streamFetch"
    /\ backend' = Answer("nobody", 200, <<>>, Undef)
    /\ inflight' = NoCall
    /\ pc' = "done"
    /\ resp' = ErrorResponse(500, <<"Stream", "response", "not", "available">>,
                             "server_error", "stream_not_available")
    /\ UNCHANGED <<inbound, config, req, calls, validated, logs, streamVars>>

(***************************************************************************)
(* One turn of the read loop of ReadableStream.start (lines 594-657).      *)
(***************************************************************************)
\* a read loop that keeps the last byte string of every chunk back
\* instead of enqueueing it before the next read
ReadChunk_HoldsLast(n) ==
    /\ pc = "streaming"
    /\ chunks < MaxChunks
    /\ pos + n <= Len(Flatten(upstream))
    /\ LET chunk == SubSeq(Flatten(upstream), pos + 1, pos + n)
           enqueued == EnqueuedByChunk(chunk, req, config)
       IN  /\ out' = out \o SubSeq(enqueued, 1, Len(enqueued) - 1)
           /\ parsed' = parsed \o ParsedByChunk(chunk)
    /\ pos' = pos + n
    /\ chunks' = chunks + 1
    /\ UNCHANGED <<pc, inbound, config, req, inflight, calls, validated, backend,
                   resp, logs, upstream, sstate>>

\* reader.read() returns the next n atoms: decode, split, rewrite, enqueue
ReadChunk(n) ==
    /\ pc = "streaming"
    /\ chunks < MaxChunks
    /\ pos + n <= Len(Flatten(upstream))
    /\ LET chunk == SubSeq(Flatten(upstream), pos + 1, pos + n)
       IN  /\ out' = out \o EnqueuedByChunk(chunk, req, config)
           /\ parsed' = parsed \o ParsedByChunk(chunk)
    /\ pos' = pos + n
    /\ chunks' = chunks + 1
    /\ UNCHANGED <<pc, inbound, config, req, inflight, calls, validated, backend,
                   resp, logs, upstream, sstate>>

\* a read loop with a deadline: after MaxChunks reads it closes the
\* caller's stream whether or not the backend has ended
ReadDone_Deadline ==
    /\ pc = "streaming"
    /\ pos = Len(Flatten(upstream)) \/ chunks = MaxChunks
    /\ sstate' = "closed"
    /\ pc' = "done"
    /\ UNCHANGED <<inbound, config, req, inflight, calls, validated, backend,
                   resp, logs, upstream, pos, chunks, out, parsed>>

\* reader.read() returns done: controller.close()
ReadDone ==
    /\ pc = "streaming"
    /\ pos = Len(Flatten(upstream))
    /\ sstate' = "closed"
    /\ pc' = "done"
    /\ UNCHANGED <<inbound, config, req, inflight, calls, validated, backend,
                   resp, logs, upstream, pos, chunks, out, parsed>>

\* a read error that ends the stream with controller.close()
ReadError_Closes ==
    /\ pc = "streaming"
    /\ backend' = Answer("streamfailed", 200, <<>>, Undef)
    /\ sstate' = "closed"
    /\ pc' = "done"
    /\ UNCHANGED <<inbound, config, req, inflight, calls, validated,
                   resp, logs, upstream, pos, chunks, out, parsed>>

\* reader.read() rejects: controller.error(error)
ReadError ==
    /\ pc = "streaming"
    /\ backend' = Answer("streamfailed", 200, <<>>, Undef)
    /\ sstate' = "errored"
    /\ pc' = "done"
    /\ UNCHANGED <<inbound, config, req, inflight, calls, validated,
                   resp, logs, upstream, pos, chunks, out, parsed>>

Next ==
    \/ POST
    \/ \E s \in ErrorStatuses, b \in ErrorBodies(config.apiKey) : AdaptErrorResponse(s, b)
    \/ \E r \in AzureResponses : AdaptOkResponse(r)
    \/ AdaptBadJson
    \/ FetchRejects
    \/ \E s \in ErrorStatuses, b \in ErrorBodies(config.apiKey) : StreamErrorResponse(s, b)
    \/ \E frames \in Streams : StreamOpen(frames)
    \/ StreamNoBody
    \/ \E n \in 1..(Len(Flatten(upstream)) - pos) : ReadChunk(n)
    \/ ReadDone
    \/ ReadError

Spec == Init /\ [][Next]_vars

\* the read loop resumes whenever the read it awaits has resolved: once
\* the backend has ended, the read that reports it is handled
LiveSpec == Spec /\ WF_vars(ReadDone)

(***************************************************************************)
(* The Request Normalizer on its own: the inbound bodies that carry         *)
(* alternate fields, and lines 208-311 of POST applied to each.             *)
(***************************************************************************)
\* a turn with empty text, and a turn whose content is an object with
\* none of the recognized text fields
EmptyTurn == Obj(Str(<<"user">>), Str(<<>>), Undef)
OpaqueTurn == Obj(Str(<<"user">>), [t |-> "object"], Undef)
\* a turn object whose role is the empty string
RolelessTurn == Obj(Str(<<>>), Str(<<"Hi">>), Undef)

\* rawBody.data and the like
Wrapper(messages, input) == [t |-> "wrapper", messages |-> messages, input |-> input]

NormMessages ==
    {Undef, Arr(<<>>), Arr(<<UserHi>>), Arr(<<SystemBrief, UserHi>>),
     Str(<<"hello">>), UserHi, RolelessTurn, Arr(<<[t |-> "object"]>>)}
NormInputs ==
    {Undef, Str(<<>>), Str(<<" ">>), Str(<<"Say", "hi">>),
     Arr(<<Str(<<"a">>), Str(<<"b">>)>>), Arr(<<EmptyTurn>>), Arr(<<OpaqueTurn>>),
     Arr(<<SystemBrief, EmptyTurn>>), Arr(<<[t |-> "object"]>>)}

NormBodies ==
    [ t : {"body"}, model : {ModelName}, messages : NormMessages,
      input : NormInputs,
      prompt : {Undef, Str(<<"from", "prompt">>)},
      text : {Undef, Str(<<"from", "text">>)},
      data : {Undef, Wrapper(Arr(<<UserHi>>), Undef), Wrapper(Undef, Str(<<"data", "input">>))},
      payload : {Undef, Wrapper(Undef, Str(<<"payload", "input">>))},
      request : {Undef, Wrapper(Arr(<<SystemBrief>>), Undef)},
      inputs : {Undef, Wrapper(Undef, Str(<<"inputs", "input">>))},
      params : {Undef, Wrapper(Arr(<<UserHi, SystemBrief>>), Str(<<"never", "read">>))},
      stream : {Undef} ]

NormInit ==
    /\ pc = "received"
    /\ inbound \in NormBodies
    /\ config = [found |-> TRUE, apiKey |-> ShapedKey,
                 deploymentName |-> DeploymentName, modelType |-> "chat"]
    /\ req = NoRequest
    /\ inflight = NoCall
    /\ calls = 0
    /\ validated = FALSE
    /\ backend = NoAnswer
    /\ resp = NoResponse
    /\ logs = <<>>
    /\ upstream = <<>>
    /\ pos = 0
    /\ chunks = 0
    /\ out = <<>>
    /\ parsed = <<>>
    /\ sstate = "none"

\* body after line 311: the copy of rawBody with the normalized messages
Normalize ==
    /\ pc = "received"
    /\ pc' = "normalized"
    /\ req' = [t |-> "body", model |-> inbound.model,
               messages |-> NormalizedMessages(inbound), stream |-> inbound.stream]
    /\ UNCHANGED <<inbound, config, inflight, calls, validated, backend, resp,
                   logs, streamVars>>

NormNext == Normalize

NormSpec == NormInit /\ [][NormNext]_vars

(***************************************************************************)
(* The request builder on its own: the body handed to fetch for every      *)
(* shape of the optional parameters of a validated request.                *)
(***************************************************************************)
\* tool declarations: a named function tool, a built-in tool, a function
\* tool without a name
Tool(type, function) == [t |-> "object", type |-> type, function |-> function]
FunctionTool == Tool(Str(<<"function">>), [t |-> "object", name |-> Str(<<"lookup">>)])
WebSearchTool == Tool(Str(<<"web_search">>), Undef)
NamelessTool == Tool(Str(<<"function">>), [t |-> "object", name |-> Str(<<>>)])

IncludeUsage == [t |-> "object", include_usage |-> Bool(TRUE)]
ToolsShapes ==
    {Undef, Null, Arr(<<>>), Arr(<<FunctionTool>>), Arr(<<WebSearchTool>>),
     Arr(<<WebSearchTool, FunctionTool, NamelessTool>>)}

\* body as the handler passes it to proxyToAzure / proxyToAzureStream
BuildBodies ==
    [ t : {"body"}, model : {ModelName},
      messages : {Arr(<<UserHi>>), Arr(<<SystemBrief, UserHi>>)},
      input : {Undef, Str(<<"Say", "hi">>)},
      prompt : {Undef}, text : {Undef, [t |-> "object"]},
      data : {Undef}, payload : {Undef}, request : {Undef},
      inputs : {Undef}, params : {Undef},
      stream : {Undef, Bool(TRUE), Bool(FALSE)},
      stream_options : {Undef, Null, IncludeUsage},
      include : {Undef, Arr(<<Str(<<"usage">>)>>)},
      reasoning : {Undef, [t |-> "object"]},
      tools : ToolsShapes,
      temperature : {Undef, Num(1)},
      max_tokens : {Undef, Null, Num(100)},
      max_output_tokens : {Undef, Num(50)} ]

BuildInit ==
    /\ pc = "received"
    /\ inbound \in BuildBodies
    /\ config \in [found : {TRUE}, apiKey : {ShapedKey},
                   deploymentName : {DeploymentName}, modelType : {"chat", "codex"}]
    /\ req = NoRequest
    /\ inflight = NoCall
    /\ calls = 0
    /\ validated = TRUE
    /\ backend = NoAnswer
    /\ resp = NoResponse
    /\ logs = <<>>
    /\ upstream = <<>>
    /\ pos = 0
    /\ chunks = 0
    /\ out = <<>>
    /\ parsed = <<>>
    /\ sstate = "none"

\* proxyToAzure / proxyToAzureStream up to the fetch call
Build ==
    /\ pc = "received"
    /\ pc' = "built"
    /\ inflight' = AzureRequest(inbound, config, Truthy(inbound.stream))
    /\ calls' = 1
    /\ UNCHANGED <<inbound, config, req, validated, backend, resp, logs, streamVars>>

BuildNext == Build

BuildSpec == BuildInit /\ [][BuildNext]_vars

(***************************************************************************)
(* Two requests in one process.  The handler and the adapter keep every    *)
(* value in locals and closures of the call (rawBody, body, azureConfig,   *)
(* reader, decoder, the stream's controller), and the module level of      *)
(* route.ts, azure-adapter.ts and model-config.ts holds functions and      *)
(* constants only.  Each variable is a function of the caller here, and    *)
(* every await is a point where the other request may run.                 *)
(***************************************************************************)
Callers == {1, 2}
Other(c) == 3 - c

OtherModelName == Str(<<"gpt-5-codex">>)
OtherDeploymentName == Str(<<"dep-2">>)
DeltaFrame == Frame(Stringify(StreamPayload(Arr(<<DeltaChoice>>))))

PairBody(model, stream) ==
    [ t |-> "body", model |-> model, messages |-> Arr(<<UserHi>>),
      input |-> Undef, prompt |-> Undef, text |-> Undef, data |-> Undef,
      payload |-> Undef, request |-> Undef, inputs |-> Undef, params |-> Undef,
      stream |-> stream, stream_options |-> Undef, include |-> Undef,
      reasoning |-> Undef, tools |-> Undef, temperature |-> Undef,
      max_tokens |-> Undef, max_output_tokens |-> Undef ]
PairConfig(deploymentName, modelType) ==
    [found |-> TRUE, apiKey |-> "", deploymentName |-> deploymentName,
     modelType |-> modelType]

\* what the two backends answer
PairStreams == {<<TextFrame, DoneFrame>>, <<DeltaFrame>>}
PairAnswer(model) ==
    [t |-> "object", model |-> model, object |-> Undef,
     output |-> Arr(<<MessageItem>>), output_text |-> Undef,
     choices |-> Arr(<<BackendChoice>>), usage |-> Usage(3, 2),
     finish_reason |-> Undef]
\* reader.read() returns half a frame or a whole one
PairChunkSizes == {3, 6}

\* the locals hoisted to module level: once caller 1's call has assigned
\* them, every callback reads and advances those
ScopeOf_ModuleLevel(c) == IF pc[1] # "received" THEN 1 ELSE c

\* the call whose locals the callbacks of caller c's request close over
\* (request, config, reader and decoder of lines 469-480 and 584-592)
ScopeOf(c) == c

PairInit ==
    /\ pc = [c \in Callers |-> "received"]
    /\ inbound \in { [c \in Callers |->
                         PairBody(IF c = 1 THEN ModelName ELSE OtherModelName, st[c])] :
                     st \in [Callers -> {Undef, Bool(TRUE)}] }
    /\ config \in { [c \in Callers |->
                        PairConfig(IF c = 1 THEN DeploymentName ELSE OtherDeploymentName,
                                   mt[c])] :
                    mt \in [Callers -> {"chat", "codex"}] }
    /\ req = [c \in Callers |-> NoRequest]
    /\ inflight = [c \in Callers |-> NoCall]
    /\ calls = 0
    /\ validated = TRUE
    /\ backend = [c \in Callers |-> NoAnswer]
    /\ resp = [c \in Callers |-> NoResponse]
    /\ logs = <<>>
    /\ upstream = [c \in Callers |-> <<>>]
    /\ pos = [c \in Callers |-> 0]
    /\ chunks = 0
    /\ out = [c \in Callers |-> <<>>]
    /\ parsed = [c \in Callers |-> <<>>]
    /\ sstate = [c \in Callers |-> "none"]

\* POST up to the await of fetch, for a request that passes validation
PairPost(c) ==
    /\ pc[c] = "received"
    /\ LET body == [inbound[c] EXCEPT !.messages = NormalizedMessages(inbound[c])]
       IN  /\ req' = [req EXCEPT ![c] = body]
           /\ inflight' = [inflight EXCEPT
                              ![c] = AzureRequest(body, config[c], Truthy(body.stream))]
           /\ pc' = [pc EXCEPT ![c] = IF Truthy(body.stream) THEN "streamFetch" ELSE "fetch"]
    /\ calls' = calls + 1
    /\ UNCHANGED <<inbound, config, validated, backend, resp, logs, streamVars>>

\* the blocking path resumes with a 2xx JSON answer
PairAdaptOk(c, azureResponse) ==
    /\ pc[c] = "fetch"
    /\ backend' = [backend EXCEPT ![c] = JsonAnswer(azureResponse)]
    /\ inflight' = [inflight EXCEPT ![c] = NoCall]
    /\ pc' = [pc EXCEPT ![c] = "done"]
    /\ resp' = [resp EXCEPT ![c] = CompletionResponse(
                    adaptResponseFromAzure(azureResponse, req[ScopeOf(c)],
                                           config[ScopeOf(c)]))]
    /\ UNCHANGED <<inbound, config, req, calls, validated, logs, streamVars>>

\* the streaming path resumes with a 2xx answer and returns the stream
PairStreamOpen(c, frames) ==
    /\ pc[c] = "streamFetch"
    /\ backend' = [backend EXCEPT ![c] = Answer("stream", 200, <<>>, Undef)]
    /\ inflight' = [inflight EXCEPT ![c] = NoCall]
    /\ pc' = [pc EXCEPT ![c] = "streaming"]
    /\ resp' = [resp EXCEPT ![c] = StreamResponse]
    /\ upstream' = [upstream EXCEPT ![c] = frames]
    /\ sstate' = [sstate EXCEPT ![c] = "open"]
    /\ UNCHANGED <<inbound, config, req, calls, validated, logs, pos, chunks, out, parsed>>

\* one turn of the read loop of caller c's stream; parsed[c] keeps the
\* chunks its reads returned
PairReadChunk(c, n) ==
    LET scope == ScopeOf(c)
        bytes == Flatten(upstream[scope])
    IN  /\ pc[c] = "streaming"
        /\ pos[scope] + n <= Len(bytes)
        /\ LET chunk == SubSeq(bytes, pos[scope] + 1, pos[scope] + n)
           IN  /\ out' = [out EXCEPT
                             ![c] = @ \o EnqueuedByChunk(chunk, req[scope], config[scope])]
               /\ parsed' = [parsed EXCEPT ![c] = Append(@, chunk)]
        /\ pos' = [pos EXCEPT ![scope] = @ + n]
        /\ UNCHANGED <<pc, inbound, config, req, inflight, calls, validated, backend,
                       resp, logs, upstream, chunks, sstate>>

PairReadDone(c) ==
    /\ pc[c] = "streaming"
    /\ pos[ScopeOf(c)] = Len(Flatten(upstream[ScopeOf(c)]))
    /\ sstate' = [sstate EXCEPT ![c] = "closed"]
    /\ pc' = [pc EXCEPT ![c] = "done"]
    /\ UNCHANGED <<inbound, config, req, inflight, calls, validated, backend,
                   resp, logs, upstream, pos, chunks, out, parsed>>

PairReadError(c) ==
    /\ pc[c] = "streaming"
    /\ backend' = [backend EXCEPT ![c] = Answer("streamfailed", 200, <<>>, Undef)]
    /\ sstate' = [sstate EXCEPT ![c] = "errored"]
    /\ pc' = [pc EXCEPT ![c] = "done"]
    /\ UNCHANGED <<inbound, config, req, inflight, calls, validated,
                   resp, logs, upstream, pos, chunks, out, parsed>>

PairNext ==
    \E c \in Callers :
        \/ PairPost(c)
        \/ PairAdaptOk(c, PairAnswer(BackendModel))
        \/ \E frames \in PairStreams : PairStreamOpen(c, frames)
        \/ \E n \in PairChunkSizes : PairReadChunk(c, n)
        \/ PairReadDone(c)
        \/ PairReadError(c)

PairSpec == PairInit /\ [][PairNext]_vars

(***************************************************************************)
(* What the caller and the backend see, for the properties below.          *)
(***************************************************************************)
\* the bytes the caller has received on the stream, and their lines
CallerBytes == Flatten(out)
CallerLines == SplitLines(CallerBytes)

\* the payload of a 'data: ' line
DataOf(line) == SubSeq(line, 3, Len(line))

\* the JSON objects the caller reads from its 'data: ' lines
IsObjectLine(line) ==
    StartsWithData(line) /\ ParseOk(DataOf(line)) /\ IsObj(Parse(DataOf(line)))

\* the byte strings of out that carry a re-serialized payload, in order
IsRewrittenItem(item) ==
    /\ Len(item) >= 5
    /\ SubSeq(item, Len(item) - 1, Len(item)) = <<NL, NL>>
    /\ StartsWithData(item)
    /\ ParseOk(SubSeq(item, 3, Len(item) - 2))
RewrittenItems == SelectSeq(out, IsRewrittenItem)
RewrittenValue(item) == Parse(SubSeq(item, 3, Len(item) - 2))

\* how many frames of the backend's stream are equal to f
EmittedCount(f) == Cardinality({ i \in 1..Len(upstream) : upstream[i] = f })

BlockingBackendError == pc = "done" /\ ~req.stream /\ backend.kind = "error"
StreamingBackendError == pc = "done" /\ req.stream /\ backend.kind = "error"

(***************************************************************************)
(* Properties                                                              *)
(***************************************************************************)

\* C1: on the blocking path a backend answer with non-2xx status s gives
\* the caller an error response with HTTP status s and code
\* azure_api_error, whatever the text of the backend's error body.
C1_BlockingErrorKeepsStatus ==
    BlockingBackendError =>
        /\ resp.kind = "error"
        /\ resp.status = backend.status
        /\ resp.code = "azure_api_error"

\* C2: no error body returned to the caller contains the API key of the
\* resolved descriptor, whatever the backend wrote in its error body.
C2_NoKeyInErrorBody ==
    resp.kind = "error" => ~Includes(resp.message, <<config.apiKey>>)

\* C3: every backend error text that reaches a sink (a log line or the
\* response) is the sanitized form of the text it was taken from.
C3_SinksAreSanitized ==
    /\ \A i \in 1..Len(logs) : logs[i].text = sanitizeString(logs[i].src)
    /\ (backend.kind = "error" /\ resp.kind = "error")
          => resp.message = sanitizeString(resp.message)

C5_ExactlyOneCall ==
    /\ calls <= 1
    /\ (pc # "received" /\ validated) => calls = 1
    /\ resp.status = 400 => calls = 0

\* C6: once the stream has ended, every frame of the backend whose
\* payload does not parse as JSON is in the caller's bytes unmodified
\* (its line and the newline that ends it), however the backend's bytes
\* were divided into chunks.
C6_UnparsedFrameVerbatim ==
    sstate = "closed" =>
        Cardinality(Occurrences(DataPrefix \o JunkData \o <<NL>>, CallerBytes))
            = EmittedCount(Frame(JunkData))

\* C7: once the stream has ended, each data: [DONE] sentinel of the
\* backend is in the caller's bytes exactly once, as data: [DONE]
\* followed by a blank line, however the bytes were divided into chunks.
C7_DoneExactlyOnce ==
    sstate = "closed" =>
        Cardinality(Occurrences(DoneFrame, CallerBytes)) = EmittedCount(DoneFrame)

\* C8: in alternate mode every parsed frame with a choices array is
\* re-serialized with object chat.completion.chunk; a choice that had
\* text and no delta has delta.content equal to that text and no text
\* key, a choice that had no message has the empty assistant message,
\* and the text of a choice is still in the frame.
C8_ChoiceRewritten(before, after) ==
    /\ (Text(before) # Undef /\ Field(before, "delta") = Undef) =>
          /\ Content(Field(after, "delta")) = Text(before)
          /\ Text(after) = Undef
    /\ Field(before, "message") = Undef =>
          Field(after, "message")
              = [t |-> "object", role |-> Str(<<"assistant">>), content |-> Str(<<>>)]
    /\ Text(before) # Undef =>
          Text(before) \in {Text(after), Content(Field(after, "delta"))}

C9_ReadErrorAborts ==
    [][ /\ backend'.kind = "streamfailed" =>
              /\ backend.kind \in {"stream", "streamfailed"}
              /\ sstate' = "errored"
              /\ out' = out
              /\ pos' = pos
              /\ calls' = calls /\ calls = 1
        /\ backend.kind = "streamfailed" => UNCHANGED vars ]_vars

C9_Witness ==
    /\ backend.kind = "streamfailed"
    /\ Len(out) > 0
    /\ pos < Len(Flatten(upstream))

\* C10: on the streaming path a non-2xx backend answer is returned as one
\* JSON error object {error:{message,type,code}} with the backend's
\* status; no stream is opened and the call is not repeated.
C10_StreamErrorIsJson ==
    StreamingBackendError =>
        /\ resp.kind = "error"
        /\ resp.status = backend.status
        /\ resp.type = "server_error"
        /\ resp.code = "azure_api_error"
        /\ Includes(resp.message, ApiErrorPrefix)
        /\ sstate = "none" /\ out = <<>>
        /\ calls = 1

C10_Witness ==
    /\ StreamingBackendError
    /\ backend.status = 429
    /\ Includes(backend.body, <<"required">>)

(***************************************************************************)
(* Properties of the Request Normalizer (NormSpec)                         *)
(***************************************************************************)
\* the body names no alternate field but input, and no messages
OnlyInput(body) ==
    /\ body.messages = Undef
    /\ body.prompt = Undef /\ body.text = Undef
    /\ body.data = Undef /\ body.payload = Undef /\ body.request = Undef
    /\ body.inputs = Undef /\ body.params = Undef

\* the single user turn with the given text
UserTurn(text) == Obj(Str(<<"user">>), text, Undef)

\* the Conversation is taken from an alternate field, not from a messages
\* array that was already there
FromAlternate(body) == ~(IsArr(body.messages) /\ Len(body.messages.a) > 0)

\* a candidate value gives at least one turn
Yields(candidate) ==
    buildMessages(candidate) # Undef /\ Len(buildMessages(candidate).a) > 0

\* C11 as stated: a body with only a string input gives exactly one user
\* turn whose text is that string, for every string, the empty and the
\* whitespace-only string included.
C11_StringInputOneTurn ==
    (pc = "normalized" /\ OnlyInput(inbound) /\ IsStr(inbound.input))
        => req.messages = Arr(<<UserTurn(inbound.input)>>)

\* C11 amended: a body with only a string input that has a character
\* other than white space gives exactly one user turn whose text is that
\* string; for an empty or whitespace-only string no Conversation is
\* produced.
C11_NonBlankInputOneTurn ==
    (pc = "normalized" /\ OnlyInput(inbound) /\ IsStr(inbound.input))
        => IF TrimNonEmpty(inbound.input.s)
           THEN req.messages = Arr(<<UserTurn(inbound.input)>>)
           ELSE req.messages = Undef

C11_Witness ==
    /\ pc = "normalized"
    /\ OnlyInput(inbound)
    /\ inbound.input = Str(<<"Say", "hi">>)
    /\ req.messages = Arr(<<UserTurn(Str(<<"Say", "hi">>))>>)

\* C12: a body whose messages is a non-empty array keeps it as it is
\* (same turns, same order), whatever alternate fields are present.
C12_MessagesUnchanged ==
    (pc = "normalized" /\ IsArr(inbound.messages) /\ Len(inbound.messages.a) > 0)
        => req.messages = inbound.messages

C12_Witness ==
    /\ pc = "normalized"
    /\ inbound.messages = Arr(<<SystemBrief, UserHi>>)
    /\ inbound.input = Str(<<"Say", "hi">>)
    /\ inbound.prompt # Undef /\ inbound.data # Undef /\ inbound.params # Undef
    /\ req.messages = Arr(<<SystemBrief, UserHi>>)

\* the priority order of the alternate fields
C13_Priority(body) ==
    << body.input, body.messages, body.prompt, body.text,
       WMessages(body.data), WInput(body.data),
       WMessages(body.payload), WInput(body.payload),
       WMessages(body.request), WInput(body.request),
       WMessages(body.inputs), WInput(body.inputs),
       WMessages(body.params) >>

C14_NoEmptyTurn ==
    (pc = "normalized" /\ FromAlternate(inbound) /\ IsArr(req.messages)) =>
        \A i \in 1..Len(req.messages.a) :
            /\ IsStr(Content(req.messages.a[i]))
            /\ Content(req.messages.a[i]) # Str(<<>>)

(***************************************************************************)
(* Properties of validation (Spec)                                         *)
(***************************************************************************)
\* no turns array is in the body and no alternate field yields a turn
NoTurns(body) ==
    /\ ~IsArr(body.messages)
    /\ \A i \in 1..Len(C13_Priority(body)) : ~Yields(C13_Priority(body)[i])

\* C15: the step that handles a body with no turns array and no yielding
\* candidate answers 400 missing_messages; the step that handles any
\* other body without a model answers 400 missing_model (the messages
\* check comes first); both do it whether or not a descriptor could be
\* resolved, log no error and issue no backend call.
C15_MalformedRejected ==
    [][ pc = "received" =>
          /\ NoTurns(inbound) =>
                /\ resp' = ErrorResponse(400,
                       <<"Invalid", "request", ":", "messages", "array", "is", "required">>,
                       "invalid_request_error", "missing_messages")
                /\ pc' = "done" /\ calls' = 0 /\ inflight' = NoCall /\ logs' = logs
          /\ (~NoTurns(inbound) /\ ~Truthy(inbound.model)) =>
                /\ resp' = ErrorResponse(400,
                       <<"Invalid", "request", ":", "model", "is", "required">>,
                       "invalid_request_error", "missing_model")
                /\ pc' = "done" /\ calls' = 0 /\ inflight' = NoCall /\ logs' = logs
      ]_vars

C15_Witness ==
    /\ pc = "done"
    /\ resp.status = 400 /\ resp.code = "missing_model"
    /\ ~config.found
    /\ calls = 0

(***************************************************************************)
(* Properties of the alternate-mode blocking response (Spec)               *)
(***************************************************************************)
\* the backend answered 2xx with JSON to an alternate-mode blocking call
CodexAnswered == pc = "done" /\ backend.kind = "json" /\ config.modelType = "codex"

\* the one choice of the caller's response
OnlyChoice == resp.body.choices.a[1]

\* the content the output arrays of the model must give: the texts of the
\* output_text and text blocks of a message, the strings, the leaf text
\* and the leaf content of the other items, joined by newlines in order
C16_Expected ==
    (Arr(<<MessageItem>>) :> <<"hi">>)
    @@ (MixedOutput :> <<"a", "\n", "b", "\n", "s", "\n", "lt", "\n", "lc">>)
    @@ (SilentOutput :> <<>>)

NoShape(azureResponse) ==
    /\ Field(azureResponse, "output") \in {Undef, Null, Arr(<<>>)}
    /\ ~Truthy(Field(azureResponse, "output_text"))
    /\ ~(IsArr(Field(azureResponse, "choices"))
           /\ Len(Field(azureResponse, "choices").a) > 0)

\* C17: a 2xx answer with none of the four shapes (an empty object, an
\* empty output array, a JSON null) does not fail the request: the caller
\* gets a chat-completion with exactly one choice with empty content.
C17_NoShapeGivesEmptyChoice ==
    (CodexAnswered /\ NoShape(backend.json))
    => /\ resp.kind = "completion"
       /\ Len(resp.body.choices.a) = 1
       /\ OnlyChoice.message.content = Str(<<>>)

\* C18: when one of the four shapes is recognized, prompt_tokens is the
\* backend's input_tokens, completion_tokens its output_tokens, and
\* total_tokens the backend's total when it supplies one (0 included),
\* the sum of the two otherwise.
C18_UsageMapped ==
    (CodexAnswered /\ resp.kind = "completion" /\ ~NoShape(backend.json)
        /\ Field(Field(backend.json, "usage"), "input_tokens") # Undef)
    => LET usage == backend.json.usage
       IN  /\ resp.body.usage.prompt_tokens = usage.input_tokens
           /\ resp.body.usage.completion_tokens = usage.output_tokens
           /\ resp.body.usage.total_tokens =
                 IF Field(usage, "total_tokens") # Undef
                 THEN usage.total_tokens
                 ELSE Num(usage.input_tokens.n + usage.output_tokens.n)


\* the backend body of a chat-mode call that has been built
ChatBuilt == pc = "built" /\ config.modelType = "chat"

\* the function-typed declarations that have a function name
NamedFunctionTools(tools) ==
    SelectSeq(tools.a, LAMBDA tool :
        /\ Field(tool, "type") = Str(<<"function">>)
        /\ Truthy(Field(Field(tool, "function"), "name")))

\* C20: a chat-mode backend body is the caller's body with model, input,
\* stream_options, include, reasoning and text removed, tools cut down to
\* the named function tools (omitted when none is left), stream true on
\* the streaming path, and every other field as the caller sent it.
C20_ChatBodyIsCallerBody ==
    ChatBuilt =>
        \A name \in DOMAIN inbound :
            inflight.body[name] =
                IF name \in {"model", "input", "stream_options", "include",
                             "reasoning", "text"}
                THEN Undef
                ELSE IF name = "tools" /\ IsArr(inbound.tools)
                THEN IF NamedFunctionTools(inbound.tools) = <<>> THEN Undef
                     ELSE Arr(NamedFunctionTools(inbound.tools))
                ELSE IF name = "stream" /\ Truthy(inbound.stream)
                THEN Bool(TRUE)
                ELSE inbound[name]


\* everything caller c's request owns
Owned(c) ==
    <<pc[c], req[c], inflight[c], backend[c], resp[c], upstream[c], pos[c],
      out[c], parsed[c], sstate[c]>>

\* what caller c must have received from the chunks its own backend
\* call delivered
OwnFrames(c) ==
    Flatten([i \in 1..Len(parsed[c]) |->
                EnqueuedByChunk(parsed[c][i], inbound[c], config[c])])

\* the re-serialized payloads among the byte strings caller c received
RewrittenFor(c) == SelectSeq(out[c], IsRewrittenItem)

PairIsolated ==
    \A c \in Callers :
        /\ Flatten(parsed[c]) = SubSeq(Flatten(upstream[c]), 1, pos[c])
        /\ out[c] = OwnFrames(c)
        /\ \A i \in 1..Len(RewrittenFor(c)) :
               IsObj(RewrittenValue(RewrittenFor(c)[i]))
                   => RewrittenValue(RewrittenFor(c)[i]).model = inbound[c].model
        /\ resp[c].kind = "completion" =>
               /\ resp[c].body = adaptResponseFromAzure(backend[c].json, inbound[c],
                                                        config[c])
               /\ resp[c].body.model = inbound[c].model

\* C19: with the awaits of two requests interleaved in any order, each
\* caller has received exactly what its own backend call's chunks and
\* its own model and descriptor give, every rewritten frame and every
\* completion names its own request's model, and a step of one request
\* (its stream closing or erroring included) leaves everything the other
\* request owns as it was.
C19_RequestsIsolated ==
    /\ []PairIsolated
    /\ [][\A c \in Callers : Owned(c)' # Owned(c) => Owned(Other(c))' = Owned(Other(c))]_vars

\* both streams are under way at once, each caller has a rewritten frame,
\* and one of the streams then errors while the other is still open
C19_Witness ==
    /\ DOMAIN pc = Callers
    /\ sstate[1] = "errored" /\ sstate[2] = "open"
    /\ RewrittenFor(1) # <<>> /\ RewrittenFor(2) # <<>>
    /\ pos[2] < Len(Flatten(upstream[2]))
    /\ config[1].modelType # config[2].modelType


(***************************************************************************)
(* Properties of the request builder (BuildSpec)                           *)
(***************************************************************************)
\* the backend body of an alternate-mode call that has been built
CodexBuilt == pc = "built" /\ config.modelType = "codex"

\* {role, content: [{type: 'input_text', text}]} for one turn
InputTurn(turn) ==
    [t |-> "input_item", role |-> turn.role,
     content |-> <<[type |-> "input_text", text |-> turn.content]>>]

\* input has one element per turn, in order; messages and max_tokens are
\* not in the body
C21_InputPerTurn ==
    /\ inflight.body.input =
           Arr([i \in 1..Len(inbound.messages.a) |-> InputTurn(inbound.messages.a[i])])
    /\ inflight.body.messages = Undef
    /\ inflight.body.max_tokens = Undef

\* C21 as stated: in alternate mode the body has one input element per
\* turn, neither messages nor max_tokens, and max_output_tokens is the
\* caller's max_tokens when present and 16384 when absent.
C21_AlternateBody ==
    CodexBuilt =>
        /\ C21_InputPerTurn
        /\ inflight.body.max_output_tokens =
               IF inbound.max_tokens # Undef THEN inbound.max_tokens
               ELSE Num(DefaultMaxOutputTokens)

\* C21 amended: without max_tokens, max_output_tokens is the caller's own
\* max_output_tokens when that is truthy, and 16384 otherwise.
C21_AlternateBodyKeepsOwnLimit ==
    CodexBuilt =>
        /\ C21_InputPerTurn
        /\ inflight.body.max_output_tokens =
               IF inbound.max_tokens # Undef THEN inbound.max_tokens
               ELSE IF Truthy(inbound.max_output_tokens) THEN inbound.max_output_tokens
               ELSE Num(DefaultMaxOutputTokens)

\* a two-turn conversation with max_tokens and max_output_tokens both set
C21_Witness ==
    /\ CodexBuilt
    /\ Len(inbound.messages.a) = 2
    /\ inbound.max_tokens = Num(100)
    /\ inbound.max_output_tokens = Num(50)
    /\ inflight.body.max_output_tokens = Num(100)


\* C22: whatever the body holds, on the blocking and on the streaming
\* path, an alternate-mode descriptor calls /openai/responses with the
\* header Authorization: Bearer <credential>, and any other descriptor
\* calls the deployment's chat/completions with api-key: <credential>.
C22_EndpointByMode ==
    pc = "built" =>
        IF config.modelType = "codex"
        THEN /\ inflight.url = "/openai/responses"
             /\ inflight.header = "Authorization"
             /\ inflight.credential = <<"Bearer", config.apiKey>>
        ELSE /\ inflight.url = "/openai/deployments/{deployment}/chat/completions"
             /\ inflight.header = "api-key"
             /\ inflight.credential = <<config.apiKey>>

\* a chat-mode descriptor, a streaming request whose body brings an
\* `input` string and alternate-mode parameters, sent to chat/completions
C22_Witness ==
    /\ pc = "built"
    /\ config.modelType = "chat"
    /\ inbound.input # Undef
    /\ inbound.max_output_tokens # Undef
    /\ inbound.stream = Bool(TRUE)
    /\ inflight.header = "api-key"


(***************************************************************************)
(* More properties of the Request Normalizer (NormSpec)                    *)
(***************************************************************************)
\* the body sent again with the Conversation the Normalizer produced
Resubmitted == [inbound EXCEPT !.messages = req.messages]

\* C23: a body whose messages is a non-empty Conversation the Normalizer
\* produced normalizes to that same Conversation, whatever the alternate
\* fields of the body hold.
C23_NormalizerIdempotent ==
    (pc = "normalized" /\ IsArr(req.messages) /\ Len(req.messages.a) > 0)
        => NormalizedMessages(Resubmitted) = req.messages

\* the Conversation was built from the body's own messages, a single turn
\* object with an empty role, while a prompt was there too
C23_Witness ==
    /\ pc = "normalized"
    /\ inbound.messages = RolelessTurn
    /\ inbound.input = Undef
    /\ inbound.prompt # Undef
    /\ IsArr(req.messages) /\ Len(req.messages.a) = 1
    /\ NormalizedMessages(Resubmitted) = req.messages


(***************************************************************************)
(* More properties of the streaming path (Spec)                            *)
(***************************************************************************)
\* what the caller receives when one read returns all the backend's bytes
UnsegmentedBytes == Flatten(EnqueuedByChunk(Flatten(upstream), req, config))

\* C24: once the stream has ended the caller's bytes are those of the
\* unsegmented stream, however the reads divided the backend's bytes.
C24_SegmentationInvariant ==
    sstate = "closed" => CallerBytes = UnsegmentedBytes


\* where the i-th frame of the backend ends in its byte stream
FrameEnd(i) == Len(Flatten(SubSeq(upstream, 1, i)))

\* the frames that lie wholly between byte a (exclusive) and byte b, in
\* the backend's order
WholeFrames(a, b) ==
    SelectSeq([i \in 1..Len(upstream) |-> i],
              LAMBDA i : FrameEnd(i - 1) >= a /\ FrameEnd(i) <= b)

\* the one byte string the caller is owed for a frame of the backend
Delivery(frame) ==
    LET data == SubSeq(frame, 3, Len(frame) - 2)
    IN  IF data = DoneData THEN DoneFrame
        ELSE IF ParseOk(data)
        THEN Frame(Stringify(RewriteFrame(Parse(data), req, config)))
        ELSE SubSeq(frame, 1, Len(frame) - 1)

\* C25: the step that reads a chunk appends to what the caller has
\* received, in the backend's order and once each, the delivery of every
\* frame that lies wholly in that chunk, with at most one byte string
\* before and one after them for the frames the chunk only has a part
\* of; nothing is enqueued by any other step, and nothing already
\* enqueued is changed.
C25_ChunkForwardedBeforeNextRead ==
    [][ IF pos' > pos
        THEN LET whole == WholeFrames(pos, pos')
                 owed == [k \in 1..Len(whole) |-> Delivery(upstream[whole[k]])]
             IN  \E before \in 0..1, after \in 0..1 :
                    /\ Len(out') = Len(out) + before + Len(owed) + after
                    /\ SubSeq(out', 1, Len(out)) = out
                    /\ SubSeq(out', Len(out) + before + 1,
                              Len(out) + before + Len(owed)) = owed
        ELSE out' = out ]_vars

\* one read returned two whole frames and the caller has both, in order
C25_Witness ==
    /\ pc = "streaming"
    /\ chunks = 1
    /\ upstream = <<TextFrame, DoneFrame>>
    /\ pos = Len(Flatten(upstream))
    /\ Len(out) = 2 /\ out[2] = DoneFrame


\* the state of the streaming path as the specification names it: OPEN
\* until the sentinel has been forwarded or the backend's stream ended
SentinelSeen == \E i \in 1..Len(out) : out[i] = DoneFrame
Phase ==
    IF sstate = "none" THEN "NONE"
    ELSE IF sstate \in {"closed", "errored"} THEN "CLOSED"
    ELSE IF SentinelSeen THEN "CLOSING"
    ELSE "OPEN"

\* C26: OPEN, CLOSING, CLOSED with no step backwards; after the stream
\* has left OPEN (sentinel forwarded, or backend ended) nothing more is
\* forwarded to the caller; CLOSED is terminal and the caller's stream is
\* closed at most once.
C26_OpenClosingClosed ==
    [][ /\ Phase = "CLOSING" => Phase' \in {"CLOSING", "CLOSED"} /\ out' = out
        /\ Phase = "CLOSED" => Phase' = "CLOSED" /\ out' = out /\ sstate' = sstate
        /\ Phase = "OPEN" => Phase' # "NONE" ]_vars


\* the backend has delivered all its bytes: the next read reports done
BackendEnded == pc = "streaming" /\ pos = Len(Flatten(upstream))
Terminated == sstate \in {"closed", "errored"}

\* C27: once the backend's stream has ended (or a read has failed) the
\* caller's stream is eventually closed or errored, and the caller's
\* stream is closed only by the step that finds the backend ended and
\* errored only by the step in which a read fails.
C27_TerminatesWithBackend ==
    /\ BackendEnded ~> Terminated
    /\ backend.kind = "streamfailed" ~> Terminated
    /\ [][ (Terminated' /\ ~Terminated) =>
               \/ sstate' = "closed" /\ BackendEnded
               \/ sstate' = "errored" /\ backend'.kind = "streamfailed" ]_vars

\* the backend ended after two reads and the caller's stream is closed
C27_Witness ==
    /\ sstate = "closed"
    /\ chunks = MaxChunks
    /\ pos = Len(Flatten(upstream))
    /\ Len(upstream) = 2


\* every element is a turn-like object: a role and non-empty content
WellFormed(messages) ==
    /\ IsArr(messages) /\ Len(messages.a) > 0
    /\ \A i \in 1..Len(messages.a) :
           Truthy(Role(messages.a[i])) /\ Truthy(Content(messages.a[i]))

\* C28: messages is taken as it is only when it is well-formed; a body
\* whose messages is a non-empty array that is not well-formed, and whose
\* input is a string with text, yields the single user turn of input.
C28_MalformedMessagesScanned ==
    pc = "normalized" =>
        /\ req.messages = inbound.messages /\ IsArr(inbound.messages)
               /\ Len(inbound.messages.a) > 0
               => WellFormed(inbound.messages)
        /\ (/\ IsArr(inbound.messages) /\ Len(inbound.messages.a) > 0
            /\ ~WellFormed(inbound.messages)
            /\ IsStr(inbound.input) /\ TrimNonEmpty(inbound.input.s))
               => req.messages = Arr(<<UserTurn(inbound.input)>>)


(***************************************************************************)
(* More properties of the blocking alternate-mode response (Spec)          *)
(***************************************************************************)
\* the first value of the sequence that is a string with text in it
RECURSIVE FirstCarrying(_)
FirstCarrying(values) ==
    IF values = <<>> THEN Str(<<>>)
    ELSE IF IsStr(Head(values)) /\ Head(values).s # <<>> THEN Head(values)
    ELSE FirstCarrying(Tail(values))

\* the places of a choice where text may be, in the order of the claim
ChoicePlaces(choice) ==
    << Content(Field(choice, "message")), Field(choice, "output"), Content(choice),
       Text(choice), Content(Field(choice, "delta")), Field(choice, "message") >>

\* C29: the content comes from the first matching shape in the order
\* output array, output_text, choices, output string or object; in the
\* choices shape each choice's text is the first of message.content,
\* output, content, text, delta.content, string message that carries
\* text.
C29_ShapePriority ==
    (CodexAnswered /\ resp.kind = "completion") =>
        LET output == Field(backend.json, "output")
            output_text == Field(backend.json, "output_text")
            choices == Field(backend.json, "choices")
            given == resp.body.choices.a
        IN  IF IsArr(output) /\ Len(output.a) > 0
            THEN given[1].message.content = Str(extractResponsesOutputText(output))
            ELSE IF IsStr(output_text) /\ output_text.s # <<>>
            THEN given[1].message.content = output_text
            ELSE IF IsArr(choices) /\ Len(choices.a) > 0
            THEN /\ Len(given) = Len(choices.a)
                 /\ \A i \in 1..Len(given) :
                        given[i].message.content = FirstCarrying(ChoicePlaces(choices.a[i]))
            ELSE IF IsStr(output) THEN given[1].message.content = output
            ELSE IF IsObj(output) THEN given[1].message.content = Text(output)
            ELSE TRUE


(***************************************************************************)
(* More properties of validation (Spec)                                    *)
(***************************************************************************)
\* C30: a backend call in flight carries at least one turn: a non-empty
\* messages array in chat mode, a non-empty input array in alternate mode.
C30_CallCarriesTurns ==
    inflight # NoCall =>
        IF config.modelType = "codex"
        THEN inflight.input # <<>> /\ inflight.body.input # Arr(<<>>)
        ELSE inflight.messages # Arr(<<>>) /\ inflight.body.messages # Arr(<<>>)

\* a call is in flight for a body whose messages was []: it carries the
\* one user turn with empty text that the scan made of the empty array
C30_Witness ==
    /\ inflight # NoCall
    /\ config.modelType = "chat"
    /\ inflight.body.messages = Arr(<<UserTurn(Str(<<>>))>>)

====
